---- MODULE Spec2Model ----
(***************************************************************************)
(* Model of src/dashboard.py: one Streamlit script that is re-run from top *)
(* to bottom on every user action.  Session state (analyzed_ticker,        *)
(* latest_live_data) and widget state (toggle, text input) survive the     *)
(* runs; everything else is recomputed by each run.                        *)
(*                                                                         *)
(* Numbers are exact decimals counted in thousandths (22.5 is 22500), so   *)
(* that round(x, 2) is a real conversion.  A field value is a record       *)
(* [k, v]: k is "num" (v thousandths), "missing" (key absent, Python None  *)
(* from dict.get), "text" (a string float() rejects), "nan" or "inf"       *)
(* (float('nan'), float('inf'), also the JSON literals NaN and Infinity    *)
(* that res.json() accepts).                                               *)
(***************************************************************************)
EXTENDS Integers, Sequences, FiniteSets, TLC

\* ------------------------------------------------------------------ bounds
\* Longest ticker history the datastore returns in the model.
MaxHist == 2

\* ------------------------------------------------------------------ values
Milli(n) == n * 1000

Num(n) == [k |-> "num", v |-> n]
Missing == [k |-> "missing", v |-> 0]
Text == [k |-> "text", v |-> 0]
NaN == [k |-> "nan", v |-> 0]
Inf == [k |-> "inf", v |-> 0]
\* the string "N/A" of lines 185-186
NA == [k |-> "N/A", v |-> 0]
\* Python None held in session_state['analyzed_ticker']
None == "None"
\* An optional record is a sequence of length 0 (Python None) or 1.
NoRecord == <<>>

\* float(x): the value, or the exception float() raises.
ToFloat(x) ==
  CASE x.k = "num" -> [exc |-> "none", val |-> x]
    [] x.k = "nan" -> [exc |-> "none", val |-> x]
    [] x.k = "inf" -> [exc |-> "none", val |-> x]
    [] x.k = "text" -> [exc |-> "ValueError", val |-> Num(0)]
    [] OTHER -> [exc |-> "TypeError", val |-> Num(0)]

\* x > y on floats, y a finite number of thousandths (nan compares False).
FloatGt(x, y) ==
  CASE x.k = "num" -> x.v > y
    [] x.k = "inf" -> TRUE
    [] OTHER -> FALSE

\* x < y on floats.
FloatLt(x, y) ==
  CASE x.k = "num" -> x.v < y
    [] OTHER -> FALSE

\* x == 0 on a float or on the string "N/A" (a string never equals 0).
FloatIsZero(x) == x.k = "num" /\ x.v = 0

\* round(x, 2) for x in thousandths: the nearest hundredth.  The model's
\* inputs never lie exactly between two hundredths, so the tie rule of
\* binary floats is not involved.
Round2(x) ==
  IF x.k # "num" THEN x
  ELSE LET a == IF x.v < 0 THEN 0 - x.v ELSE x.v
           q == ((a + 5) \div 10) * 10
       IN  Num(IF x.v < 0 THEN 0 - q ELSE q)

\* abs(pe_value - hype_value)
AbsDiff(x, y) ==
  CASE x.k = "nan" \/ y.k = "nan" -> NaN
    [] x.k = "inf" /\ y.k = "inf" -> NaN
    [] x.k = "inf" \/ y.k = "inf" -> Inf
    [] OTHER -> Num(IF x.v >= y.v THEN x.v - y.v ELSE y.v - x.v)

\* ------------------------------------------------- get_recommendation
SPECULATIVE == "SPECULATIVE HOLD"
REDUCE_EXPOSURE == "REDUCE EXPOSURE"
VALUE_OPPORTUNITY == "VALUE OPPORTUNITY"
NEUTRAL == "HOLD / NEUTRAL"

HighRiskGap == Milli(50)
ValueGap == Milli(20)

\* Line 71 without the "N/A" test.
get_recommendation_noNA(gap, pe, hype) ==
  IF FloatIsZero(pe) THEN SPECULATIVE
  ELSE IF FloatGt(gap, HighRiskGap) THEN REDUCE_EXPOSURE
  ELSE IF FloatLt(gap, ValueGap) THEN VALUE_OPPORTUNITY
  ELSE NEUTRAL

\* Lines 68-83.
get_recommendation(gap, pe, hype) ==
  IF FloatIsZero(pe) \/ pe = NA THEN SPECULATIVE
  ELSE IF FloatGt(gap, HighRiskGap) THEN REDUCE_EXPOSURE
  ELSE IF FloatLt(gap, ValueGap) THEN VALUE_OPPORTUNITY
  ELSE NEUTRAL

\* ------------------------------------------------- display pipeline
\* display_data.get(key): the field, Missing standing for None.
\* Lines 165-166: pe_ratio, else PERatio.
RawPE(d) == IF d.pe_ratio.k = "missing" THEN d.PERatio ELSE d.pe_ratio

\* Lines 168-171.
ParsePE(raw) ==
  IF raw.k = "missing" THEN Num(0)
  ELSE IF ToFloat(raw).exc \in {"ValueError", "TypeError"} THEN Num(0)
  ELSE ToFloat(raw).val

\* Lines 173-177: float(display_data.get(key, 0)) under a bare except.
ParseOr0(x) ==
  IF x.k = "missing" THEN Num(0)
  ELSE IF ToFloat(x).exc # "none" THEN Num(0)
  ELSE ToFloat(x).val

\* Line 182 changed to derive the gap always.
DeriveGap_always(pe_value, hype_value, gap_value) ==
  AbsDiff(pe_value, hype_value)

\* Line 182: if gap_value == 0: gap_value = abs(pe_value - hype_value)
DeriveGap(pe_value, hype_value, gap_value) ==
  IF FloatIsZero(gap_value) THEN AbsDiff(pe_value, hype_value) ELSE gap_value

\* Line 180: if pe_value > 0
PEIsValid(pe_value) == FloatGt(pe_value, 0)

\* Lines 165-191: parsed values, what is displayed, and the recommendation.
DisplayPipeline(d) ==
  LET pe0 == ParsePE(RawPE(d))
      hype == ParseOr0(d.hype_score)
      gap0 == ParseOr0(d.gap_score)
      valid == PEIsValid(pe0)
      gap1 == IF valid THEN DeriveGap(pe0, hype, gap0) ELSE gap0
      pe_disp == IF valid THEN Round2(pe0) ELSE NA
      gap_disp == IF valid THEN Round2(gap1) ELSE NA
  IN  [pe_value |-> IF valid THEN pe0 ELSE Num(0),
       hype_value |-> hype,
       gap_value |-> gap1,
       pe_display |-> pe_disp,
       gap_display |-> gap_disp,
       rec_title |-> get_recommendation(IF gap_disp # NA THEN gap1 ELSE Num(0),
                                        pe_disp, hype)]

\* ------------------------------------------------------ input domains
\* Text typed into "Target Ticker" (line 116), before .upper().
TextInputs == {"", "nvda", "TSLA"}

\* str.upper() on the inputs above.
Upper(s) == IF s = "nvda" THEN "NVDA" ELSE s

\* Python truthiness of session_state['analyzed_ticker'] (line 144).
Truthy(t) == t # None /\ t # ""

\* P/E as the webhook may send it: pe_ratio, or PERatio when pe_ratio is absent.
LivePE ==
  {[pe_ratio |-> p, PERatio |-> Missing] :
      p \in {Text, NaN, Inf, Num(0), Num(0 - 5000), Num(4), Num(22500)}}
  \cup {[pe_ratio |-> Missing, PERatio |-> q] : q \in {Missing, Num(25000)}}

LiveHype == {Missing, Num(80000)}

LiveGap == {Missing, Text, Num(0), Num(0 - 5000), Num(19000), Num(20000),
            Num(50000), Num(51000)}

\* JSON objects the webhook may answer with; ticker "" stands for a record
\* without a (truthy) ticker field.
BodyRecords ==
  {[ticker |-> t, pe_ratio |-> p.pe_ratio, PERatio |-> p.PERatio,
    hype_score |-> h, gap_score |-> g, sim |-> FALSE] :
      t \in {"NVDA"}, p \in LivePE, h \in LiveHype, g \in LiveGap}
  \cup {[ticker |-> "", pe_ratio |-> Num(22500), PERatio |-> Missing,
         hype_score |-> Num(80000), gap_score |-> Num(0), sim |-> FALSE]}

AnyBody == CHOOSE r \in BodyRecords : r.ticker = ""

\* What requests.get / res.json() can produce (lines 124-129).
Responses ==
  {[kind |-> k, code |-> 0, body |-> AnyBody] : k \in {"timeout", "connection"}}
  \cup {[kind |-> "status", code |-> c, body |-> AnyBody] : c \in {404, 500}}
  \cup {[kind |-> k, code |-> 200, body |-> AnyBody] :
          k \in {"notjson", "emptylist", "scalar"}}
  \cup {[kind |-> k, code |-> 200, body |-> b] :
          k \in {"object", "list"}, b \in BodyRecords}

NoResponse == [kind |-> "none", code |-> 0, body |-> AnyBody]

\* Rows of pulse_logs as stored (raw column values; sim: top_news contains
\* "SIMULATION").
DbRows ==
  { [pe_ratio |-> Text, hype_score |-> Num(80000), gap_score |-> Num(10000), sim |-> FALSE],
    [pe_ratio |-> Num(22500), hype_score |-> Num(80000), gap_score |-> Missing, sim |-> FALSE],
    [pe_ratio |-> Num(4), hype_score |-> Text, gap_score |-> Num(60000), sim |-> TRUE] }

SeqsUpTo(S, n) == UNION {[1..m -> S] : m \in 0..n}

\* Query results the datastore may return, oldest row first.
DbFrames == SeqsUpTo(DbRows, MaxHist)

\* ------------------------------------------------------ data accessor
\* pd.to_numeric(errors='coerce').fillna(0) on one value (lines 52, 63).
ToNumericFill0(x) ==
  CASE x.k = "num" -> x
    [] x.k = "inf" -> x
    [] OTHER -> Num(0)

CoerceRow(r, ticker) ==
  [ticker |-> ticker, pe_ratio |-> ToNumericFill0(r.pe_ratio), PERatio |-> Missing,
   hype_score |-> ToNumericFill0(r.hype_score),
   gap_score |-> ToNumericFill0(r.gap_score), sim |-> r.sim]

\* df[~df['top_news'].astype(str).str.contains("SIMULATION")] (lines 54, 65)
RECURSIVE DropSim(_)
DropSim(df) ==
  IF df = <<>> THEN <<>>
  ELSE IF Head(df).sim THEN DropSim(Tail(df))
  ELSE <<Head(df)>> \o DropSim(Tail(df))

\* Lines 57-66 (and 46-55, the same transformation on the global query).
get_ticker_history(rows, ticker, allow_sim) ==
  LET df == [i \in 1..Len(rows) |-> CoerceRow(rows[i], ticker)]
  IN  IF df = <<>> THEN df
      ELSE IF ~allow_sim THEN DropSim(df) ELSE df

get_db_data(rows, allow_sim) == get_ticker_history(rows, "NVDA", allow_sim)

\* Lines 94-107: what the scatter section shows.
ScatterView(global_df) ==
  IF global_df = <<>> THEN "info_empty"
  ELSE IF \E i \in 1..Len(global_df) : FloatGt(global_df[i].pe_ratio, 0) THEN "chart"
  ELSE "blank"

\* ------------------------------------------------------ remote handler
\* Line 129: a non-empty list answers with its first element.
Unwrap(resp) == IF resp.kind = "list" THEN [resp EXCEPT !.kind = "object"] ELSE resp

\* Python: isinstance(exc, cls) for the exceptions the handler can see.
IsInstance(exc, cls) ==
  \/ exc = cls
  \/ cls = "Exception" /\ exc \in {"ValueError", "AttributeError", "Timeout", "ConnectionError"}

\* Line 140 changed to catch timeouts only.
OuterExcept_timeoutOnly == "Timeout"

\* Line 140: except Exception
OuterExcept == "Exception"

\* Line 136: except ValueError
InnerExcept == "ValueError"

\* Line 126: res.status_code == 200
StatusOK(code) == code = 200

\* Lines 123-141: the new latest_live_data, the message shown, and the
\* exception that leaves the handler uncaught ("none" when none does).
HandleResponse(resp) ==
  LET raisedByGet == CASE resp.kind = "timeout" -> "Timeout"
                       [] resp.kind = "connection" -> "ConnectionError"
                       [] OTHER -> "none"
      raisedInner == CASE resp.kind = "notjson" -> "ValueError"
                       [] resp.kind \in {"emptylist", "scalar"} -> "AttributeError"
                       [] OTHER -> "none"
      outer(exc) == IF IsInstance(exc, OuterExcept)
                    THEN [live |-> NoRecord, msg |-> "timeout", escaped |-> "none"]
                    ELSE [live |-> NoRecord, msg |-> "none", escaped |-> exc]
  IN  IF raisedByGet # "none" THEN outer(raisedByGet)
      ELSE IF ~StatusOK(resp.code)
        THEN [live |-> NoRecord, msg |-> "unstable", escaped |-> "none"]
      ELSE IF raisedInner # "none"
        THEN IF IsInstance(raisedInner, InnerExcept)
             THEN [live |-> NoRecord, msg |-> "maintenance", escaped |-> "none"]
             ELSE outer(raisedInner)
      ELSE IF resp.body.ticker # ""
        THEN [live |-> <<resp.body>>, msg |-> "acquired", escaped |-> "none"]
      ELSE [live |-> NoRecord, msg |-> "feed_empty", escaped |-> "none"]

\* ------------------------------------------------------ reconciliation
\* Lines 152-156 with the two branches swapped.
Reconcile_historyFirst(live_data, hist) ==
  IF hist # <<>> THEN <<hist[Len(hist)]>>
  ELSE IF live_data # NoRecord THEN live_data
  ELSE NoRecord

\* Lines 152-156: live record first, else the last history row, else None.
Reconcile(live_data, hist) ==
  IF live_data # NoRecord THEN live_data
  ELSE IF hist # <<>> THEN <<hist[Len(hist)]>>
  ELSE NoRecord

\* Lines 242-257: what the chart section shows.
ChartView(live_data, hist) ==
  IF hist # <<>> THEN "trend_chart"
  ELSE IF live_data # NoRecord THEN "first_data_point"
  ELSE "demo_tip"

\* ------------------------------------------------------ trend evaluator
RECURSIVE SumGap(_)
SumGap(h) == IF h = <<>> THEN 0 ELSE Head(h).gap_score.v + SumGap(Tail(h))

\* The threshold 1.2 x mean, compared without division:
\* latest > 1.2 * sum / n  <=>  10 * n * latest > 12 * sum.
evaluate_trend_noMinimum(h) ==
  IF Len(h) < 1 THEN "INSUFFICIENT_DATA"
  ELSE IF 10 * Len(h) * h[Len(h)].gap_score.v > 12 * SumGap(h) THEN "ELEVATED"
  ELSE "STABLE"

evaluate_trend(h) ==
  IF Len(h) < 2 THEN "INSUFFICIENT_DATA"
  ELSE IF 10 * Len(h) * h[Len(h)].gap_score.v > 12 * SumGap(h) THEN "ELEVATED"
  ELSE "STABLE"

\* ------------------------------------------------------------- state
VARIABLES
  analyzed_ticker,    \* st.session_state['analyzed_ticker']
  latest_live_data,   \* st.session_state['latest_live_data'], optional record
  show_sim,           \* the "Include Simulation Data" toggle
  text_input,         \* the "Target Ticker" text input
  pc,                 \* position of the current script run
  trigger,            \* the user action that started the current run
  scatter,            \* what the scatter section rendered
  warning,            \* the message of the Initiate Analysis handler
  hist_df,            \* result of get_ticker_history in this run
  display_data,       \* optional record chosen for display
  out,                \* optional result of the display pipeline
  view,               \* "metrics", "no_data" or "none"
  chart,              \* what the chart section rendered
  trend,              \* trend signal of this run
  recent_reads,       \* get_db_data calls made by this run
  history_reads,      \* get_ticker_history calls made by this run
  remote_calls,       \* requests.get calls made by this run
  crash_site,         \* where an uncaught exception ended the run
  last_press          \* ticker and (unwrapped) response of the last handler execution

vars == <<analyzed_ticker, latest_live_data, show_sim, text_input, pc, trigger,
          scatter, warning, hist_df, display_data, out, view, chart, trend,
          recent_reads, history_reads, remote_calls, crash_site, last_press>>

session == <<analyzed_ticker, latest_live_data>>
widgets == <<show_sim, text_input>>
rendered == <<scatter, warning, hist_df, display_data, out, view, chart, trend>>
calls == <<recent_reads, history_reads, remote_calls>>

\* Lines 12-15 and the widget defaults of lines 89 and 116; the first run
\* (the page load) is about to start.
Init ==
  /\ analyzed_ticker = None
  /\ latest_live_data = NoRecord
  /\ show_sim = TRUE
  /\ text_input = "NVDA"
  /\ pc = "scatter"
  /\ trigger = "load"
  /\ scatter = "none"
  /\ warning = "none"
  /\ hist_df = <<>>
  /\ display_data = NoRecord
  /\ out = NoRecord
  /\ view = "none"
  /\ chart = "none"
  /\ trend = "none"
  /\ recent_reads = 0
  /\ history_reads = 0
  /\ remote_calls = 0
  /\ crash_site = "none"
  /\ last_press = [ticker |-> None, resp |-> NoResponse]

RunEnded == pc \in {"done", "crashed"}

\* A new script run starts: nothing of the previous run's output is kept.
FreshRun(t) ==
  /\ RunEnded
  /\ pc' = "scatter"
  /\ trigger' = t
  /\ scatter' = "none"
  /\ warning' = "none"
  /\ hist_df' = <<>>
  /\ display_data' = NoRecord
  /\ out' = NoRecord
  /\ view' = "none"
  /\ chart' = "none"
  /\ trend' = "none"
  /\ recent_reads' = 0
  /\ history_reads' = 0
  /\ remote_calls' = 0
  /\ crash_site' = "none"
  /\ UNCHANGED <<session, last_press>>

\* A re-run of the page without any widget change.
PageLoad == FreshRun("load") /\ UNCHANGED widgets

\* Line 89: the toggle is flipped.
ToggleChange ==
  /\ FreshRun("toggle")
  /\ show_sim' = ~show_sim
  /\ UNCHANGED text_input

\* Line 116: the text input is edited.
TextInputChange ==
  /\ FreshRun("text")
  /\ \E t \in TextInputs \ {text_input} : text_input' = t
  /\ UNCHANGED show_sim

\* Line 118: the button is clicked.
ButtonPress == FreshRun("press") /\ UNCHANGED widgets

\* Lines 92-107, the query succeeding.
ScatterSection ==
  /\ pc = "scatter"
  /\ \E rows \in DbFrames : scatter' = ScatterView(get_db_data(rows, show_sim))
  /\ recent_reads' = recent_reads + 1
  /\ pc' = "controls"
  /\ UNCHANGED <<session, widgets, trigger, warning, hist_df, display_data, out,
                 view, chart, trend, history_reads, remote_calls, crash_site,
                 last_press>>

\* Line 48 raising: get_db_data has no handler, the run ends at line 92.
ScatterQueryFails ==
  /\ pc = "scatter"
  /\ recent_reads' = recent_reads + 1
  /\ pc' = "crashed"
  /\ crash_site' = "get_db_data"
  /\ UNCHANGED <<session, widgets, trigger, rendered, history_reads, remote_calls,
                 last_press>>

\* Line 118 changed to run the handler on every run.
ButtonPressed_always(t) == TRUE

\* The run's trigger is a click on "Initiate Analysis" (line 118).
ButtonPressed(t) == t = "press"

\* Line 120 removed.
PressSession_keepLive(target_stock, live) == <<target_stock, live>>

\* Lines 119-120: the session state a press writes before the request.
PressSession(target_stock, live) == <<target_stock, NoRecord>>

\* Lines 116-124: the button was pressed; the request is sent.
InitiateAnalysis ==
  /\ pc = "controls"
  /\ ButtonPressed(trigger)
  /\ analyzed_ticker' = PressSession(Upper(text_input), latest_live_data)[1]
  /\ latest_live_data' = PressSession(Upper(text_input), latest_live_data)[2]
  /\ remote_calls' = remote_calls + 1
  /\ pc' = "awaiting"
  /\ last_press' = [ticker |-> Upper(text_input), resp |-> NoResponse]
  /\ UNCHANGED <<widgets, trigger, rendered, recent_reads, history_reads, crash_site>>

\* Lines 116-118: the button was not pressed.
NoAnalysis ==
  /\ pc = "controls"
  /\ ~ButtonPressed(trigger)
  /\ pc' = "display"
  /\ UNCHANGED <<session, widgets, trigger, rendered, calls, crash_site, last_press>>

\* Lines 124-141: the request returns or raises.
ReceiveResponse ==
  /\ pc = "awaiting"
  /\ \E resp \in Responses :
       LET h == HandleResponse(resp)
       IN  /\ latest_live_data' = IF h.live # NoRecord THEN h.live ELSE latest_live_data
           /\ warning' = h.msg
           /\ pc' = IF h.escaped = "none" THEN "display" ELSE "crashed"
           /\ crash_site' = IF h.escaped = "none" THEN crash_site ELSE "handler"
           /\ last_press' = [last_press EXCEPT !.resp = Unwrap(resp)]
  /\ UNCHANGED <<analyzed_ticker, widgets, trigger, scatter, hist_df, display_data,
                 out, view, chart, trend, calls>>

\* Line 144 false: no ticker has been analyzed.
DisplaySkipped ==
  /\ pc = "display"
  /\ ~Truthy(analyzed_ticker)
  /\ pc' = "done"
  /\ UNCHANGED <<session, widgets, trigger, rendered, calls, crash_site, last_press>>

\* Lines 144-257, the query succeeding.
DisplayResults ==
  /\ pc = "display"
  /\ Truthy(analyzed_ticker)
  /\ \E rows \in DbFrames :
       LET h == get_ticker_history(rows, analyzed_ticker, show_sim)
           d == Reconcile(latest_live_data, h)
       IN  /\ hist_df' = h
           /\ display_data' = d
           /\ out' = IF d # NoRecord THEN <<DisplayPipeline(d[1])>> ELSE NoRecord
           /\ view' = IF d # NoRecord THEN "metrics" ELSE "no_data"
           /\ chart' = ChartView(latest_live_data, h)
  /\ history_reads' = history_reads + 1
  /\ pc' = "trend"
  /\ UNCHANGED <<session, widgets, trigger, scatter, warning, trend, recent_reads,
                 remote_calls, crash_site, last_press>>

\* Line 59 raising: get_ticker_history has no handler, the run ends at line 149.
HistoryQueryFails ==
  /\ pc = "display"
  /\ Truthy(analyzed_ticker)
  /\ history_reads' = history_reads + 1
  /\ pc' = "crashed"
  /\ crash_site' = "get_ticker_history"
  /\ UNCHANGED <<session, widgets, trigger, rendered, recent_reads, remote_calls,
                 last_press>>

\* The trend signal of the analyzed ticker's history.
TrendEvaluator ==
  /\ pc = "trend"
  /\ trend' = evaluate_trend(hist_df)
  /\ pc' = "done"
  /\ UNCHANGED <<session, widgets, trigger, scatter, warning, hist_df, display_data,
                 out, view, chart, calls, crash_site, last_press>>

Next ==
  \/ PageLoad
  \/ ToggleChange
  \/ TextInputChange
  \/ ButtonPress
  \/ ScatterSection
  \/ ScatterQueryFails
  \/ InitiateAnalysis
  \/ NoAnalysis
  \/ ReceiveResponse
  \/ DisplaySkipped
  \/ DisplayResults
  \/ HistoryQueryFails
  \/ TrendEvaluator

Spec == Init /\ [][Next]_vars

\* ------------------------------------------------------------ properties
\* The display section has rendered the metrics of a record.
Displayed == view = "metrics"

\* The raw P/E of a record is a strictly positive finite number.
PositiveFinite(raw) == raw.k = "num" /\ raw.v > 0

\* The raw P/E of a record is absent, unparsable, not a number, zero or negative.
UndefinedPE(d) ==
  \/ RawPE(d).k \in {"missing", "text", "nan"}
  \/ RawPE(d).k = "num" /\ RawPE(d).v <= 0

\* The category the gap alone gives: above 50, else below 20, else neutral.
CategoryOfGap(g) ==
  IF g.k = "inf" \/ (g.k = "num" /\ g.v > 50000) THEN REDUCE_EXPOSURE
  ELSE IF g.k = "num" /\ g.v < 20000 THEN VALUE_OPPORTUNITY
  ELSE NEUTRAL

\* C1: a displayed record (live or cached) whose P/E is undefined (absent,
\* unparsable, zero or negative) is recommended SPECULATIVE, whatever its
\* gap_score and hype_score; never VALUE OPPORTUNITY or REDUCE EXPOSURE.
C1_UndefinedPEIsSpeculative ==
  (Displayed /\ UndefinedPE(display_data[1])) => out[1].rec_title = SPECULATIVE

\* A live record with a negative P/E and a gap_score above 50 is displayed.
C1_Witness ==
  /\ Displayed
  /\ latest_live_data # NoRecord
  /\ display_data[1].pe_ratio = Num(0 - 5000)
  /\ display_data[1].gap_score = Num(51000)
  /\ out[1].rec_title = SPECULATIVE

\* C2: a displayed record whose P/E is a strictly positive number, however
\* small, gets the category of its gap alone: above 50 REDUCE EXPOSURE, else
\* below 20 VALUE OPPORTUNITY, else NEUTRAL (50 and 20 themselves NEUTRAL),
\* and never SPECULATIVE.
C2_ValidPEClassifiedByGap ==
  (Displayed /\ PositiveFinite(RawPE(display_data[1])))
    => out[1].rec_title = CategoryOfGap(out[1].gap_value)

\* C3: reconciliation displays the held live record whatever the history
\* holds; without one, the last history record; without either, nothing, and
\* the 'no data' state is shown.
C3_ReconcilePriority ==
  (pc \in {"trend", "done"} /\ Truthy(analyzed_ticker)) =>
    /\ latest_live_data # NoRecord =>
         (display_data = latest_live_data /\ view = "metrics")
    /\ (latest_live_data = NoRecord /\ hist_df # <<>>) =>
         (display_data = <<hist_df[Len(hist_df)]>> /\ view = "metrics")
    /\ (latest_live_data = NoRecord /\ hist_df = <<>>) =>
         (display_data = NoRecord /\ view = "no_data")

\* The last of two different history records is displayed, no live record held.
C3_Witness ==
  /\ pc = "done"
  /\ latest_live_data = NoRecord
  /\ Len(hist_df) = 2
  /\ hist_df[1] # hist_df[2]
  /\ display_data = <<hist_df[2]>>

\* The response of a request is one of the failures: no answer, a status
\* other than 200, a body that is not JSON, or JSON without a record that
\* has a ticker.
FailedResponse(r) ==
  \/ r.kind \in {"timeout", "connection", "status", "notjson", "emptylist", "scalar"}
  \/ r.kind \in {"object", "list"} /\ r.body.ticker = ""

\* The current run is a press whose handler has received its response.
PressHandled ==
  /\ trigger = "press"
  /\ \/ pc \in {"display", "trend", "done"}
     \/ pc = "crashed" /\ crash_site # "get_db_data"

\* C4: every failure of the remote request is non-fatal: no live record is
\* stored, no exception leaves the handler, the run goes on to the display
\* step, and there the last history record is displayed whenever the
\* ticker's history is non-empty.
C4_RemoteFailureFallsBack ==
  (PressHandled /\ FailedResponse(last_press.resp)) =>
    /\ latest_live_data = NoRecord
    /\ crash_site # "handler"
    /\ (pc \in {"trend", "done"} /\ Truthy(analyzed_ticker) /\ hist_df # <<>>) =>
         (display_data = <<hist_df[Len(hist_df)]>> /\ view = "metrics")

\* A press whose request could not connect ends with the cached record displayed.
C4_Witness ==
  /\ trigger = "press"
  /\ pc = "done"
  /\ last_press.resp.kind = "connection"
  /\ hist_df # <<>>
  /\ view = "metrics"

\* C5: a failing datastore query (get_db_data or get_ticker_history) ends in
\* an informational empty state; no run is aborted by an uncaught error.
C5_QueryFailureNeverAborts == pc # "crashed"

\* C6: for a displayed record with valid P/E the gap is |pe - hype| when the
\* record's gap_score is 0, absent or unparsable, and the record's own
\* gap_score when that is non-zero, also when it differs from |pe - hype|;
\* the gap shown is that value rounded to two decimals.
C6_GapDerivedOnlyWhenZero ==
  (Displayed /\ out[1].pe_display # NA) =>
    LET g == display_data[1].gap_score
        derived == AbsDiff(out[1].pe_value, out[1].hype_value)
    IN  /\ (g.k \in {"missing", "text"} \/ g = Num(0)) => out[1].gap_value = derived
        /\ (g.k = "num" /\ g.v # 0) => out[1].gap_value = g
        /\ out[1].gap_display = Round2(out[1].gap_value)

\* A record with P/E 22.5, hype 80 and its own gap_score 19 is displayed.
C6_Witness ==
  /\ Displayed
  /\ display_data[1].pe_ratio = Num(22500)
  /\ display_data[1].hype_score = Num(80000)
  /\ display_data[1].gap_score = Num(19000)
  /\ out[1].gap_value = Num(19000)

\* C7: the displayed P/E is a number only when the raw value parses to a
\* strictly positive finite number; for every other raw value (absent,
\* unparsable, zero, negative, non-finite) the P/E and the gap are shown as
\* "N/A".
C7_OnlyPositiveFiniteIsValid ==
  Displayed =>
    /\ out[1].pe_display # NA <=> PositiveFinite(RawPE(display_data[1]))
    /\ out[1].pe_display = NA => out[1].gap_display = NA

\* C8 as stated: a run makes at most one datastore read and at most one
\* remote request, and only a button press makes a request.
C8_AtMostOneRead ==
  /\ recent_reads + history_reads <= 1
  /\ remote_calls <= 1
  /\ remote_calls > 0 => trigger = "press"

\* C8 amended: a run makes at most one get_db_data read and at most one
\* get_ticker_history read (two datastore reads once a ticker is analyzed),
\* at most one remote request, and only a button press makes a request;
\* while the request is outstanding nothing of the results is rendered, and
\* results are rendered only after the history read.
C8_AtMostOneReadOfEachKind ==
  /\ recent_reads <= 1
  /\ history_reads <= 1
  /\ remote_calls <= 1
  /\ remote_calls > 0 => trigger = "press"
  /\ pc = "awaiting" => (view = "none" /\ history_reads = 0 /\ recent_reads = 1)
  /\ view # "none" => (history_reads = 1 /\ recent_reads = 1)

\* A press run has finished with both reads and one request made.
C8_Witness ==
  /\ pc = "done"
  /\ trigger = "press"
  /\ recent_reads = 1
  /\ history_reads = 1
  /\ remote_calls = 1

\* Sum of gap_score over the first n records of h.
RECURSIVE GapTotal(_, _)
GapTotal(h, n) == IF n = 0 THEN 0 ELSE GapTotal(h, n - 1) + h[n].gap_score.v

\* C9: the trend signal is INSUFFICIENT_DATA when the history has fewer
\* than 2 records; with 2 or more it is ELEVATED when the latest gap_score
\* exceeds 1.2 times the mean gap_score of the full history, else STABLE.
C9_TrendSignal ==
  (pc = "done" /\ trend # "none") =>
    LET n == Len(hist_df)
    IN  /\ n < 2 => trend = "INSUFFICIENT_DATA"
        /\ n >= 2 =>
             /\ trend \in {"ELEVATED", "STABLE"}
             /\ trend = "ELEVATED" <=>
                  10 * n * hist_df[n].gap_score.v > 12 * GapTotal(hist_df, n)

\* A history of two records whose latest gap is above 1.2 times the mean.
C9_Witness ==
  /\ pc = "done"
  /\ Len(hist_df) = 2
  /\ hist_df[1].gap_score.v < hist_df[2].gap_score.v
  /\ trend = "ELEVATED"

\* A held live record is the successful response of the last handler
\* execution, which requested the analyzed ticker; an outstanding request
\* holds no live record.
SessionConsistent ==
  /\ latest_live_data # NoRecord =>
       /\ ~FailedResponse(last_press.resp)
       /\ last_press.resp.kind = "object"
       /\ latest_live_data = <<last_press.resp.body>>
       /\ last_press.ticker = analyzed_ticker
  /\ pc = "awaiting" =>
       /\ latest_live_data = NoRecord
       /\ analyzed_ticker = Upper(text_input)
       /\ last_press.ticker = analyzed_ticker

\* Only the two steps of the Initiate Analysis handler write session state.
OnlyPressWrites ==
  (pc \notin {"controls", "awaiting"} \/ trigger # "press")
    => (analyzed_ticker' = analyzed_ticker /\ latest_live_data' = latest_live_data)

\* C10: over any sequence of user actions a held live record is the
\* successful response to the most recent Initiate Analysis press, which
\* requested the current analyzed ticker; a press clears the held record
\* before its request is made; no other action changes the analyzed ticker
\* or the held live record.
C10_SessionInvariant == []SessionConsistent /\ [][OnlyPressWrites]_vars

\* A live record is held for a ticker requested after the first one.
C10_Witness ==
  /\ pc = "done"
  /\ latest_live_data # NoRecord
  /\ analyzed_ticker = "TSLA"
  /\ trigger = "toggle"

====
